---- MODULE Spec2Model ----
(***************************************************************************)
(* Model of the note-graph exporter of cosma-brain (the image-aware        *)
(* exportBrain script and its helpers).  Texts are TLA+ strings handled    *)
(* character by character; the regular expressions of the script are       *)
(* scanners over those strings; the exporter itself is a state machine     *)
(* with one action per statement group of exportBrain.                     *)
(***************************************************************************)
EXTENDS Integers, Sequences, FiniteSets, TLC

(***************************************************************************)
(* String primitives (JavaScript String methods used by the script).       *)
(***************************************************************************)
Max(a, b) == IF a > b THEN a ELSE b
Min(a, b) == IF a < b THEN a ELSE b
SetMin(S) == CHOOSE x \in S : \A y \in S : x <= y
SetMax(S) == CHOOSE x \in S : \A y \in S : x >= y

\* the array with the elements f[1], ..., f[n], built element by element
RECURSIVE arrayFrom(_, _)
arrayFrom(f, n) == IF n = 0 THEN <<>> ELSE Append(arrayFrom(f, n - 1), f[n])
array(f) == arrayFrom(f, Cardinality(DOMAIN f))

\* the characters i..j of s (1-based, both ends clamped to s)
Sub(s, i, j) ==
  IF Max(i, 1) > Min(j, Len(s)) THEN "" ELSE SubSeq(s, Max(i, 1), Min(j, Len(s)))
\* the character at index i, "" outside s
Ch(s, i) == IF i < 1 \/ i > Len(s) THEN "" ELSE SubSeq(s, i, i)

RECURSIVE indexOfCharFrom(_, _, _)
indexOfCharFrom(s, c, k) ==
  IF k > Len(s) THEN 0
  ELSE IF Ch(s, k) = c THEN k ELSE indexOfCharFrom(s, c, k + 1)
indexOfChar(s, c) == indexOfCharFrom(s, c, 1)

UpperChars == "ABCDEFGHIJKLMNOPQRSTUVWXYZ"
LowerChars == "abcdefghijklmnopqrstuvwxyz"
DigitSet == {"0", "1", "2", "3", "4", "5", "6", "7", "8", "9"}
HexSet == DigitSet \cup {"a", "b", "c", "d", "e", "f"}
SpaceSet == {" ", "\n", "\t", "\r"}
UpperSet == {"A", "B", "C", "D", "E", "F", "G", "H", "I", "J", "K", "L", "M",
             "N", "O", "P", "Q", "R", "S", "T", "U", "V", "W", "X", "Y", "Z"}

IsDigit(c) == c \in DigitSet
IsHex(c) == c \in HexSet
IsSpace(c) == c \in SpaceSet

LowerChar(c) ==
  IF c \in UpperSet THEN Ch(LowerChars, indexOfChar(UpperChars, c)) ELSE c

RECURSIVE lowerFrom(_, _)
lowerFrom(s, k) ==
  IF k > Len(s) THEN "" ELSE LowerChar(Ch(s, k)) \o lowerFrom(s, k + 1)
toLowerCase(s) == lowerFrom(s, 1)

startsWithAt(s, k, p) ==
  /\ k >= 1
  /\ k + Len(p) - 1 <= Len(s)
  /\ SubSeq(s, k, k + Len(p) - 1) = p

startsWith(s, p) == startsWithAt(s, 1, p)
endsWith(s, p) == startsWithAt(s, Len(s) - Len(p) + 1, p)

\* s.indexOf(p, k - 1) + 1: the first index >= k at which p occurs, 0 when none
indexOfFrom(s, p, k) ==
  LET at == {j \in Max(k, 1)..(Len(s) - Len(p) + 1) : startsWithAt(s, j, p)}
  IN IF at = {} THEN 0 ELSE SetMin(at)

includesStr(s, p) == \E j \in 1..(Len(s) - Len(p) + 1) : startsWithAt(s, j, p)

\* s.lastIndexOf(c) + 1 for a one-character string c, 0 when none
lastIndexOf(s, c) ==
  LET at == {j \in 1..Len(s) : Ch(s, j) = c} IN IF at = {} THEN 0 ELSE SetMax(at)

\* \s* from index j on: the index of the first non-space at or after j
RECURSIVE skipSpaces(_, _)
skipSpaces(s, j) ==
  IF j > Len(s) \/ ~IsSpace(Ch(s, j)) THEN j ELSE skipSpaces(s, j + 1)
\* \s* ending at index j: the index of the last non-space at or before j
RECURSIVE skipSpacesBack(_, _)
skipSpacesBack(s, j) ==
  IF j < 1 \/ ~IsSpace(Ch(s, j)) THEN j ELSE skipSpacesBack(s, j - 1)

trimStart(s) == Sub(s, skipSpaces(s, 1), Len(s))
trimEnd(s) == Sub(s, 1, skipSpacesBack(s, Len(s)))
trim(s) == trimEnd(trimStart(s))

\* s.split(c) for a one-character separator c: a sequence of strings
RECURSIVE splitFrom(_, _, _)
splitFrom(s, c, k) ==
  LET p == indexOfFrom(s, c, k) IN
  IF p = 0 THEN <<Sub(s, k, Len(s))>>
  ELSE <<Sub(s, k, p - 1)>> \o splitFrom(s, c, p + 1)
split(s, c) == splitFrom(s, c, 1)

\* parts.join(c)
RECURSIVE join(_, _)
join(parts, c) ==
  IF Len(parts) = 0 THEN ""
  ELSE IF Len(parts) = 1 THEN parts[1]
  ELSE parts[1] \o c \o join(Tail(parts), c)

\* the index of the first character at or after j that is not a newline
RECURSIVE skipNewlines(_, _)
skipNewlines(s, j) ==
  IF j > Len(s) \/ Ch(s, j) # "\n" THEN j ELSE skipNewlines(s, j + 1)

\* s.replace(/^\n+/, '')
stripLeadingNewlines(s) == Sub(s, skipNewlines(s, 1), Len(s))

\* s.replace(/\s+/g, '-')
RECURSIVE hyphenateFrom(_, _)
hyphenateFrom(s, k) ==
  IF k > Len(s) THEN ""
  ELSE IF IsSpace(Ch(s, k)) THEN "-" \o hyphenateFrom(s, skipSpaces(s, k))
  ELSE Ch(s, k) \o hyphenateFrom(s, k + 1)
hyphenate(s) == hyphenateFrom(s, 1)

\* s.replace(/\n{3,}/g, '\n\n')
RECURSIVE collapseFrom(_, _)
collapseFrom(s, k) ==
  LET p == indexOfFrom(s, "\n\n\n", k) IN
  IF p = 0 THEN Sub(s, k, Len(s))
  ELSE Sub(s, k, p - 1) \o "\n\n" \o collapseFrom(s, skipNewlines(s, p))
collapseNewlines(s) == collapseFrom(s, 1)

\* String(n).padStart(2, '0') for 0 <= n <= 99
Digit(n) == Ch("0123456789", n + 1)
pad2(n) == Digit(n \div 10) \o Digit(n % 10)
\* `${n}` for a four-digit year
str4(n) ==
  Digit(n \div 1000) \o Digit((n \div 100) % 10) \o Digit((n \div 10) % 10)
    \o Digit(n % 10)

\* path.parse(p).name on POSIX: the last path segment without its extension
RECURSIVE stripTrailingSlashes(_)
stripTrailingSlashes(p) ==
  IF Len(p) > 1 /\ Ch(p, Len(p)) = "/"
  THEN stripTrailingSlashes(Sub(p, 1, Len(p) - 1)) ELSE p
basename(p) ==
  LET r == stripTrailingSlashes(p)
      q == lastIndexOf(r, "/")
  IN Sub(r, q + 1, Len(r))
extDot(b) ==
  IF b = ".." THEN 0 ELSE lastIndexOf(b, ".")
parseName(p) ==
  LET b == basename(p)
      d == extDot(b)
  IN IF d > 1 THEN Sub(b, 1, d - 1) ELSE b
extname(p) ==
  LET b == basename(p)
      d == extDot(b)
  IN IF d > 1 THEN Sub(b, d, Len(b)) ELSE ""
\* path.relative(from, to) for a file `to` below the directory `from`
relative(from, to) ==
  IF startsWith(to, from \o "/") THEN Sub(to, Len(from) + 2, Len(to)) ELSE to

(***************************************************************************)
(* The regular expressions of REGEX, as anchored matchers: each gives the  *)
(* index of the last character of the match that starts at index i, or 0.  *)
(***************************************************************************)
\* [^\]]* from index j: the index of the first "]" at or after j, or Len(s)+1
RECURSIVE skipNonBracket(_, _)
skipNonBracket(s, j) ==
  IF j > Len(s) \/ Ch(s, j) = "]" THEN j ELSE skipNonBracket(s, j + 1)

\* REGEX.tagLink  /\[\[([^\]]+)\]\]/
tagLinkEnd(s, i) ==
  IF ~startsWithAt(s, i, "[[") THEN 0
  ELSE LET k == skipNonBracket(s, i + 2) IN
       IF k > i + 2 /\ startsWithAt(s, k, "]]") THEN k + 1 ELSE 0

\* REGEX.wikilink  /(!?)\[\[([^\]]+)\]\]/
wikilinkEnd(s, i) ==
  IF Ch(s, i) = "!" THEN tagLinkEnd(s, i + 1) ELSE tagLinkEnd(s, i)

\* REGEX.imageWikilink  /!\[\[([^\]]+)\]\]/
imageWikilinkEnd(s, i) ==
  IF Ch(s, i) = "!" THEN tagLinkEnd(s, i + 1) ELSE 0

\* \d{n} at index j
RECURSIVE digitsAt(_, _, _)
digitsAt(s, j, n) ==
  n = 0 \/ (j <= Len(s) /\ IsDigit(Ch(s, j)) /\ digitsAt(s, j + 1, n - 1))
\* [a-f0-9]{n} at index j
RECURSIVE hexAt(_, _, _)
hexAt(s, j, n) ==
  n = 0 \/ (j <= Len(s) /\ IsHex(Ch(s, j)) /\ hexAt(s, j + 1, n - 1))

IdDigits == 14
SuffixHex == 4

\* the groups of REGEX.linkId
\*   /!?\[\[(\d{14}(?:-[a-f0-9]{4})?)(?:\|([^\]]+))?\]\]/
\* anchored at i: [to, id, display, hasDisplay], to = 0 when there is no match
linkIdAt(s, i) ==
  LET b == IF Ch(s, i) = "!" THEN i + 1 ELSE i
      p == b + 2 + IdDigits
      q == IF Ch(s, p) = "-" /\ hexAt(s, p + 1, SuffixHex)
           THEN p + 1 + SuffixHex ELSE p
      k == skipNonBracket(s, q + 1)
      none == [to |-> 0, id |-> "", display |-> "", hasDisplay |-> FALSE]
  IN IF ~(startsWithAt(s, b, "[[") /\ digitsAt(s, b + 2, IdDigits)) THEN none
     ELSE IF startsWithAt(s, q, "]]")
          THEN [to |-> q + 1, id |-> Sub(s, b + 2, q - 1), display |-> "",
                hasDisplay |-> FALSE]
     ELSE IF Ch(s, q) = "|" /\ k > q + 1 /\ startsWithAt(s, k, "]]")
          THEN [to |-> k + 1, id |-> Sub(s, b + 2, q - 1),
                display |-> Sub(s, q + 1, k - 1), hasDisplay |-> TRUE]
     ELSE none
linkIdEnd(s, i) == linkIdAt(s, i).to

\* REGEX.leadingLinks  /^(\[\[[^\]]+\]\]\s*)+/ : the length of m[0], 0 = no match
RECURSIVE leadingRun(_, _)
leadingRun(s, i) ==
  LET e == tagLinkEnd(s, i) IN
  IF e = 0 THEN i - 1 ELSE leadingRun(s, skipSpaces(s, e + 1))
leadingLinksLen(s) == leadingRun(s, 1)

matchEnd(re, s, i) ==
  CASE re = "tagLink" -> tagLinkEnd(s, i)
    [] re = "wikilink" -> wikilinkEnd(s, i)
    [] re = "imageWikilink" -> imageWikilinkEnd(s, i)
    [] re = "linkId" -> linkIdEnd(s, i)

\* the matches of a /g expression, left to right, not overlapping: each
\* starts at the first index at or after the end of the one before
RECURSIVE scan(_, _, _, _)
scan(re, s, starts, k) ==
  LET next == {j \in starts : j >= k} IN
  IF next = {} THEN <<>>
  ELSE LET f == SetMin(next)
           e == matchEnd(re, s, f)
       IN <<[from |-> f, to |-> e]>> \o scan(re, s, starts, e + 1)
\* (every expression of REGEX begins with "[" or with "!")
matchAll(re, s) ==
  scan(re, s, {j \in 1..Len(s) : Ch(s, j) \in {"[", "!"} /\ matchEnd(re, s, j) > 0}, 1)
matchText(s, m) == Sub(s, m.from, m.to)

\* s.replace(re, callback): outs[k] replaces the k-th match
RECURSIVE splice(_, _, _, _, _)
splice(s, ms, outs, k, pos) ==
  IF k > Len(ms) THEN Sub(s, pos, Len(s))
  ELSE Sub(s, pos, ms[k].from - 1) \o outs[k]
         \o splice(s, ms, outs, k + 1, ms[k].to + 1)
replaceAll(s, ms, outs) == splice(s, ms, outs, 1, 1)

(***************************************************************************)
(* JavaScript Map: a function on the set of its keys.  `undefined` and the *)
(* empty string are both falsy; no key of the script maps to "".           *)
(***************************************************************************)
Undefined == ""
EmptyMap == [k \in {} |-> Undefined]
mapHas(m, k) == k \in DOMAIN m
mapGet(m, k) == IF k \in DOMAIN m THEN m[k] ELSE Undefined
mapSet(m, k, v) == (k :> v) @@ m
\* a || b on strings
orElse(a, b) == IF a # Undefined THEN a ELSE b

(***************************************************************************)
(* Constants of the exporter.                                              *)
(***************************************************************************)
IMAGE_EXTENSIONS == <<".png", ".webp", ".jpg", ".jpeg", ".gif", ".svg">>
TAG_LINE_PREFIX == "Tags:"
LINK_PREFIX == "Link:"
SECOND_BRAIN_TAG == "Second Brain"
DEFAULT_RECORD_TYPE == "note"

(***************************************************************************)
(* Helpers of the exporter, one operator per function of the script.       *)
(***************************************************************************)
\* generateId: the modification time as YYYYMMDDHHMMSS (getMonth() is 0-based)
generateId(m) ==
  str4(m.year) \o pad2(m.month + 1) \o pad2(m.date) \o pad2(m.hours)
    \o pad2(m.minutes) \o pad2(m.seconds)

\* findMarkdownFiles: the entries of the listing that end in .md, in order
findMarkdownFiles(listing) ==
  SelectSeq(listing, LAMBDA fp : endsWith(fp, ".md"))

\* findImageFiles: empty when the directory does not exist
findImageFiles(listing) ==
  SelectSeq(listing, LAMBDA fp :
    \E k \in DOMAIN IMAGE_EXTENSIONS :
      IMAGE_EXTENSIONS[k] = toLowerCase(extname(fp)))

\* buildImageMap
RECURSIVE buildImageMapFrom(_, _, _)
buildImageMapFrom(files, k, byName) ==
  IF k > Len(files) THEN byName
  ELSE LET fp == files[k]
           name == basename(fp)
           base == parseName(fp)
           m1 == mapSet(byName, name, fp)
           m2 == IF mapHas(m1, base) THEN m1 ELSE mapSet(m1, base, fp)
       IN buildImageMapFrom(files, k + 1, m2)
buildImageMap(listing) == buildImageMapFrom(findImageFiles(listing), 1, EmptyMap)

\* resolveImagePath: the exact name, then name + each known extension
RECURSIVE resolveImageExt(_, _, _)
resolveImageExt(trimmed, imageMap, k) ==
  IF k > Len(IMAGE_EXTENSIONS) THEN Undefined
  ELSE IF mapHas(imageMap, trimmed \o IMAGE_EXTENSIONS[k])
       THEN imageMap[trimmed \o IMAGE_EXTENSIONS[k]]
  ELSE resolveImageExt(trimmed, imageMap, k + 1)
resolveImagePath(ref, imageMap) ==
  LET trimmed == trim(ref) IN
  IF mapHas(imageMap, trimmed) THEN imageMap[trimmed]
  ELSE resolveImageExt(trimmed, imageMap, 1)

\* s.split(/x/i)
splitX(s) == split(join(split(s, "X"), "x"), "x")

\* s.replace(/"/g, '&quot;')
escapeQuotes(s) == join(split(s, "\""), "&quot;")

trimAll(parts) == array([k \in DOMAIN parts |-> trim(parts[k])])
nth(parts, k) == IF k <= Len(parts) THEN parts[k] ELSE Undefined

\* the source file an image reference resolves to, Undefined when none
imageSource(match, imageMap) ==
  LET inner == Sub(match, 4, Len(match) - 2)
      parts == trimAll(split(inner, "|"))
      raw == orElse(nth(parts, 1), inner)
      name == IF includesStr(raw, "/")
              THEN LET segs == split(join(split(raw, "\\"), "/"), "/")
                   IN segs[Len(segs)]
              ELSE raw
  IN resolveImagePath(name, imageMap)

\* the replacement callback of resolveImagesInContent
imageMarkup(match, imageMap) ==
  LET inner == Sub(match, 4, Len(match) - 2)
      parts == trimAll(split(inner, "|"))
      sizePart == nth(parts, 2)
      srcPath == imageSource(match, imageMap)
      destName == basename(srcPath)
      wh == SelectSeq(trimAll(splitX(sizePart)), LAMBDA x : x # "")
      w == nth(wh, 1)
      h == nth(wh, 2)
      sizeAttr ==
        IF sizePart = Undefined THEN ""
        ELSE IF h # Undefined
             THEN " style=\"max-width: min(" \o w \o "px, 100%); max-height: min("
                    \o h \o "px, 100%)\""
        ELSE IF w # Undefined
             THEN " style=\"max-width: min(" \o w \o "px, 100%)\""
        ELSE ""
      alt == escapeQuotes(parseName(destName))
  IN IF srcPath = Undefined THEN ""
     ELSE "<img src=\"/dist/images/" \o destName \o "\" alt=\"" \o alt \o "\""
            \o sizeAttr \o ">"

\* an Image Resolver that leaves the body alone without an asset directory
resolveImagesWithDirectoryOnly(content, hasMap, imageMap) ==
  LET ms == matchAll("imageWikilink", content) IN
  IF ~hasMap THEN content
  ELSE replaceAll(content, ms,
         array([k \in DOMAIN ms |-> imageMarkup(matchText(content, ms[k]), imageMap)]))

\* resolveImagesInContent; hasMap = FALSE models imageMap === null
resolveImagesInContent(content, hasMap, imageMap) ==
  LET ms == matchAll("imageWikilink", content) IN
  replaceAll(content, ms,
    array([k \in DOMAIN ms |->
       IF hasMap THEN imageMarkup(matchText(content, ms[k]), imageMap) ELSE ""]))

\* the files resolveImagesInContent copies to dist/images
copiedImages(content, hasMap, imageMap) ==
  IF ~hasMap THEN {}
  ELSE LET ms == matchAll("imageWikilink", content) IN
       {basename(imageSource(matchText(content, ms[k]), imageMap)) :
          k \in {j \in DOMAIN ms :
                   imageSource(matchText(content, ms[j]), imageMap) # Undefined}}

\* an exclusion test that compares the first segment as it is written
isExcludedCaseSensitive(filePath, brainDir, excludedFolders) ==
  LET top == split(relative(brainDir, filePath), "/")[1] IN
  \E k \in DOMAIN excludedFolders : excludedFolders[k] = top

\* isExcluded: the first segment of the relative path, lower-cased
isExcluded(filePath, brainDir, excludedFolders) ==
  LET top == split(relative(brainDir, filePath), "/")[1] IN
  \E k \in DOMAIN excludedFolders : excludedFolders[k] = toLowerCase(top)

\* parseConfig: EXCLUDED_FOLDERS split on commas, trimmed, lower-cased
parseExcluded(excludeStr) ==
  LET parts == split(excludeStr, ",") IN
  SelectSeq(array([k \in DOMAIN parts |-> toLowerCase(trim(parts[k]))]),
            LAMBDA x : x # "")

\* an extractor that takes the first line only when it holds a reference
extractTagsWithReference(content) ==
  LET lines == split(content, "\n")
      ms == matchAll("tagLink", lines[1])
  IN IF startsWith(lines[1], TAG_LINE_PREFIX) /\ Len(ms) > 0
     THEN [tags |-> array([k \in DOMAIN ms |->
                             Sub(lines[1], ms[k].from + 2, ms[k].to - 2)]),
           content |-> stripLeadingNewlines(join(Tail(lines), "\n"))]
     ELSE [tags |-> <<>>, content |-> content]

\* extractTags: [tags, content]
extractTags(content) ==
  LET lines == split(content, "\n")
      ms == matchAll("tagLink", lines[1])
  IN IF startsWith(lines[1], TAG_LINE_PREFIX)
     THEN [tags |-> array([k \in DOMAIN ms |->
                             Sub(lines[1], ms[k].from + 2, ms[k].to - 2)]),
           content |-> stripLeadingNewlines(join(Tail(lines), "\n"))]
     ELSE [tags |-> <<>>, content |-> content]

\* a classifier that takes the first tag even when it is the root tag
recordTypeFirstTag(tags, filePath, inputDir) ==
  LET parts == split(relative(inputDir, filePath), "/") IN
  IF Len(tags) > 0 THEN hyphenate(toLowerCase(tags[1]))
  ELSE IF Len(parts) > 1 THEN hyphenate(toLowerCase(parts[Len(parts) - 1]))
  ELSE DEFAULT_RECORD_TYPE

\* a classifier that takes the top folder of the path as the location
recordTypeTopFolder(tags, filePath, inputDir) ==
  LET parts == split(relative(inputDir, filePath), "/") IN
  IF Len(tags) > 0 /\ tags[1] # SECOND_BRAIN_TAG
  THEN hyphenate(toLowerCase(tags[1]))
  ELSE IF Len(parts) > 1 THEN hyphenate(toLowerCase(parts[1]))
  ELSE DEFAULT_RECORD_TYPE

\* recordType
recordType(tags, filePath, inputDir) ==
  LET parts == split(relative(inputDir, filePath), "/") IN
  IF Len(tags) > 0 /\ tags[1] # SECOND_BRAIN_TAG
  THEN hyphenate(toLowerCase(tags[1]))
  ELSE IF Len(parts) > 1 THEN hyphenate(toLowerCase(parts[Len(parts) - 1]))
  ELSE DEFAULT_RECORD_TYPE

\* the target a reference is looked up by: path.parse(raw || linkText).name
linkTarget(linkText) ==
  LET parts == trimAll(split(linkText, "|")) IN
  parseName(orElse(nth(parts, 1), linkText))
linkDisplay(linkText) ==
  LET parts == trimAll(split(linkText, "|")) IN nth(parts, 2)

\* a lookup without the case-insensitive fallback
lookupIdExact(target, titleToId, titleToIdCi) == mapGet(titleToId, target)

\* titleToId.get(target) ?? titleToIdCi.get(target.toLowerCase())
lookupId(target, titleToId, titleToIdCi) ==
  IF mapHas(titleToId, target) THEN titleToId[target]
  ELSE mapGet(titleToIdCi, toLowerCase(target))

\* a replacement callback that rewrites without testing whether an id was found
resolveOneUnchecked(match, titleToId, titleToIdCi) ==
  LET linkText == Sub(match, 3, Len(match) - 2)
      target == linkTarget(linkText)
      id == IF mapHas(titleToId, target) THEN titleToId[target]
            ELSE mapGet(titleToIdCi, toLowerCase(target))
  IN IF startsWith(match, "!") THEN match
     ELSE "[[" \o id \o "|" \o orElse(linkDisplay(linkText), target) \o "]]"

\* a replacement callback that displays the title the lookup matched
resolveOneStoredTitle(match, titleToId, titleToIdCi) ==
  LET linkText == Sub(match, 3, Len(match) - 2)
      target == linkTarget(linkText)
      id == lookupId(target, titleToId, titleToIdCi)
      title == CHOOSE t \in DOMAIN titleToId :
                 titleToId[t] = id /\ toLowerCase(t) = toLowerCase(target)
  IN IF startsWith(match, "!") \/ id = Undefined THEN match
     ELSE "[[" \o id \o "|" \o orElse(linkDisplay(linkText), title) \o "]]"

\* the replacement callback of resolveLinks
resolveOne(match, titleToId, titleToIdCi) ==
  LET isImage == startsWith(match, "!")
      linkText == Sub(match, 3, Len(match) - 2)
      target == linkTarget(linkText)
      id == lookupId(target, titleToId, titleToIdCi)
  IN IF isImage THEN match
     ELSE IF id # Undefined
          THEN "[[" \o id \o "|" \o orElse(linkDisplay(linkText), target) \o "]]"
     ELSE match

\* resolveLinks
resolveLinks(content, titleToId, titleToIdCi) ==
  LET ms == matchAll("wikilink", content) IN
  replaceAll(content, ms,
    array([k \in DOMAIN ms |->
             resolveOne(matchText(content, ms[k]), titleToId, titleToIdCi)]))

\* new RegExp(`\\[\\[${id}`).test(content): ids hold no regex metacharacter
hasLinkTo(content, id) == includesStr(content, "[[" \o id)

\* a linker that also links the note of the second tag when the first tag is
\* the root tag
categoryLinksSecondTag(content, tags, id, titleToId, idToTitle) ==
  LET sbId == mapGet(titleToId, SECOND_BRAIN_TAG)
      tag == IF nth(tags, 1) = SECOND_BRAIN_TAG THEN nth(tags, 2) ELSE nth(tags, 1)
      catId == mapGet(titleToId, tag)
      sb == IF /\ \E k \in DOMAIN tags : tags[k] = SECOND_BRAIN_TAG
               /\ sbId # Undefined /\ sbId # id /\ ~includesStr(content, "[[" \o sbId)
            THEN <<"[[" \o sbId \o "|" \o SECOND_BRAIN_TAG \o "]]">> ELSE <<>>
      cat == IF /\ tag # Undefined
                /\ catId # Undefined /\ catId # id /\ ~includesStr(content, "[[" \o catId)
             THEN <<"[[" \o catId \o "|" \o orElse(mapGet(idToTitle, catId), tag) \o "]]">>
             ELSE <<>>
  IN sb \o cat

\* addCategoryLinks: the links to prepend
categoryLinks(content, tags, id, titleToId, idToTitle) ==
  LET sbId == mapGet(titleToId, SECOND_BRAIN_TAG)
      catId == mapGet(titleToId, nth(tags, 1))
      sb == IF /\ \E k \in DOMAIN tags : tags[k] = SECOND_BRAIN_TAG
               /\ sbId # Undefined /\ sbId # id /\ ~hasLinkTo(content, sbId)
            THEN <<"[[" \o sbId \o "|" \o SECOND_BRAIN_TAG \o "]]">> ELSE <<>>
      cat == IF /\ nth(tags, 1) # Undefined /\ tags[1] # SECOND_BRAIN_TAG
                /\ catId # Undefined /\ catId # id /\ ~hasLinkTo(content, catId)
             THEN <<"[[" \o catId \o "|" \o orElse(mapGet(idToTitle, catId), tags[1])
                      \o "]]">>
             ELSE <<>>
  IN sb \o cat

addCategoryLinks(content, tags, id, titleToId, idToTitle) ==
  LET add == categoryLinks(content, tags, id, titleToId, idToTitle) IN
  IF Len(add) > 0 THEN join(add, " ") \o "\n\n" \o trim(content) ELSE content

\* removeLeadingTagLinks
removeLeadingTagLinks(content) ==
  LET n == leadingLinksLen(content)
      after == trim(Sub(content, n + 1, Len(content)))
  IN IF n > 0 /\ startsWith(after, LINK_PREFIX) THEN after ELSE content

\* extractLinks
extractLinks(body) ==
  LET ms == SelectSeq(matchAll("linkId", body),
                      LAMBDA m : ~startsWith(matchText(body, m), "!"))
  IN array([k \in DOMAIN ms |->
        LET g == linkIdAt(body, ms[k].from) IN
        [targetId |-> g.id, displayText |-> orElse(g.display, g.id)]])

\* bodyToReadable
bodyToReadable(body, idToTitle) ==
  LET ms == matchAll("linkId", body)
      outs == array([k \in DOMAIN ms |->
                 LET g == linkIdAt(body, ms[k].from) IN
                 IF startsWith(matchText(body, ms[k]), "!") THEN ""
                 ELSE "[" \o orElse(g.display, orElse(mapGet(idToTitle, g.id), g.id))
                        \o "](#n-" \o g.id \o ")"])
  IN trim(collapseNewlines(replaceAll(body, ms, outs)))

VARIABLES
  listing,          \* the entries below the vault root, in enumeration order
  mtimeOf,          \* the modification time of each entry (index into MTimes)
  env,              \* the environment: EXCLUDED_FOLDERS, BRAIN_IMAGES_PATH
  clock,            \* the wall clock read by new Date()
  run,              \* which invocation of the script this is
  prevOutput,       \* dist/brain.json as the previous invocation left it
  pc,               \* the position in exportBrain
  i,                \* the index of the running for loop
  excludedFolders,  \* parseConfig().excludedFolders
  imagesDir,        \* parseConfig().imagesDir
  allFiles, pathToId, idToPath, titleToId, idToTitle, titleToIdCi,
  included, notes, hasImageMap, imageMap,
  tags, body, content, links,   \* the locals of the per-document loop body
  backlinks,        \* the Map of the backlink pass
  output,           \* dist/brain.json
  distImages        \* the file names in dist/images

vars == <<listing, mtimeOf, env, clock, run, prevOutput, pc, i, excludedFolders,
          imagesDir, allFiles, pathToId, idToPath, titleToId, idToTitle,
          titleToIdCi, included, notes, hasImageMap, imageMap, tags, body,
          content, links, backlinks, output, distImages>>

(***************************************************************************)
(* The inputs: a pool of vault entries, of which a run sees a few.         *)
(***************************************************************************)
MaxFiles == 3
MaxRuns == 2

BrainDir == "/vault"
AssetsDir == "/assets"

MTimes == <<
  [year |-> 2024, month |-> 0, date |-> 5, hours |-> 9, minutes |-> 0, seconds |-> 59],
  [year |-> 2023, month |-> 11, date |-> 31, hours |-> 23, minutes |-> 59, seconds |-> 7] >>

Pool == <<
  [path |-> "/vault/Second Brain.md", mtimes |-> {2},
   text |-> "Hub [[second brain]] [[DevOps|ops]]\n![[diagram.png|400x200]]"],
  [path |-> "/vault/DevOps.md", mtimes |-> {1},
   text |-> "Tags: [[Second Brain]] [[DevOps]]\nLink: x\n[[Python]] [[Journal.md]] [[Missing]]"],
  [path |-> "/vault/ops/Journal.md", mtimes |-> {1, 2},
   text |-> "Tags: [[Second Brain]] [[DevOps]]\n\nCI ![[chart|x200]]"],
  [path |-> "/vault/Me/Python.md", mtimes |-> {1},
   text |-> "Tags: [[DevOps]] [[Second Brain]]\n[[DevOps]] [[Second Brain]]\nLink: x [[Journal]]"],
  [path |-> "/vault/projects/alpha/DevOps.md", mtimes |-> {2},
   text |-> "[[python|snake]] [[Node.js]] [[Second Brain]]"],
  [path |-> "/vault/Node.js.md", mtimes |-> {2},
   text |-> "Tags: [[Dev Ops]]\n\n\nRun [[devops]] ![[missing.png]]"],
  [path |-> "/vault/archive/python.md", mtimes |-> {1},
   text |-> "Tags: old\n\nOld [[Python]] [[PYTHON]]"],
  [path |-> "/vault/todo.txt", mtimes |-> {1},
   text |-> "[[DevOps]]"] >>

PoolIndex(fp) == CHOOSE k \in DOMAIN Pool : Pool[k].path = fp

Envs == {
  [EXCLUDED_FOLDERS |-> " me , Drafts", BRAIN_IMAGES_PATH |-> AssetsDir],
  [EXCLUDED_FOLDERS |-> "", BRAIN_IMAGES_PATH |-> Undefined] }

\* the entries below the images directory, in enumeration order
AssetListing ==
  <<"/assets/diagram.png", "/assets/charts/chart.webp", "/assets/readme.txt">>

\* fs.readFileSync(filePath, 'utf-8')
readFileSync(fp) == Pool[PoolIndex(fp)].text

\* a modification time that moves with every run of the script
statMtimeTouched(fp) == MTimes[((mtimeOf[fp] + clock) % Len(MTimes)) + 1]

\* fs.statSync(filePath).mtime
statMtime(fp) == MTimes[mtimeOf[fp]]

\* crypto.createHash('md5').update(fp).digest('hex'), the digests of the pool paths
md5Hex(fp) ==
  CASE fp = "/vault/Second Brain.md" -> "324cc77d52f368398649efb29523b0ab"
    [] fp = "/vault/DevOps.md" -> "e8c97b258d060163d507e1f0a44c4cff"
    [] fp = "/vault/ops/Journal.md" -> "c4109d90ce205cb6b353c584fadf1047"
    [] fp = "/vault/Me/Python.md" -> "c410d778e13c5291b740a8c96c0030e7"
    [] fp = "/vault/projects/alpha/DevOps.md" -> "819b9e28a014be723fcc4dd1732378d9"
    [] fp = "/vault/Node.js.md" -> "0a9545db8d8d62cc3d79009bc4089401"
    [] fp = "/vault/archive/python.md" -> "2614fa2f7f24827b3e774c4c703fc532"

\* the id of the collision branch: `${id}-${md5(fp).slice(0, 4)}`
suffixedId(id, fp) == id \o "-" \o Sub(md5Hex(fp), 1, SuffixHex)

\* an id loop without the collision branch
assignedIdBare(fp, idToPathNow) == generateId(statMtime(fp))

\* the id exportBrain gives fp after the files before it
assignedId(fp, idToPathNow) ==
  LET id == generateId(statMtime(fp)) IN
  IF mapHas(idToPathNow, id) /\ idToPathNow[id] # fp THEN suffixedId(id, fp) ELSE id

\* the members of a set of pool indexes, ascending or descending
RECURSIVE ascending(_)
ascending(S) ==
  IF S = {} THEN <<>>
  ELSE LET m == CHOOSE x \in S : \A y \in S : x <= y
       IN <<m>> \o ascending(S \ {m})
reverse(q) == array([k \in DOMAIN q |-> q[Len(q) + 1 - k]])

Listings ==
  LET order(S) == LET asc == ascending(S) IN
                  array([k \in DOMAIN asc |-> Pool[asc[k]].path]) IN
  UNION {{order(S), reverse(order(S))} :
           S \in {T \in SUBSET DOMAIN Pool : Cardinality(T) <= MaxFiles}}

Range(q) == {q[k] : k \in DOMAIN q}

NoLocals ==
  /\ tags = <<>>
  /\ body = ""
  /\ content = ""
  /\ links = <<>>

Start ==
  /\ pc = "config"
  /\ i = 0
  /\ excludedFolders = <<>>
  /\ imagesDir = Undefined
  /\ allFiles = <<>>
  /\ pathToId = EmptyMap
  /\ idToPath = EmptyMap
  /\ titleToId = EmptyMap
  /\ idToTitle = EmptyMap
  /\ titleToIdCi = EmptyMap
  /\ included = <<>>
  /\ notes = <<>>
  /\ hasImageMap = FALSE
  /\ imageMap = EmptyMap
  /\ NoLocals
  /\ backlinks = EmptyMap

Init ==
  /\ listing \in Listings
  /\ mtimeOf \in [Range(listing) -> DOMAIN MTimes]
  /\ \A fp \in Range(listing) : mtimeOf[fp] \in Pool[PoolIndex(fp)].mtimes
  /\ env \in Envs
  /\ clock = 0
  /\ run = 1
  /\ prevOutput = <<>>
  /\ output = <<>>
  /\ distImages = {}
  /\ Start

inputs == <<listing, mtimeOf, env>>
maps == <<pathToId, idToPath, titleToId, idToTitle, titleToIdCi>>
locals == <<tags, body, content, links>>
config == <<excludedFolders, imagesDir>>
world == <<clock, run, prevOutput, output, distImages>>

(***************************************************************************)
(* exportBrain, statement by statement.                                    *)
(***************************************************************************)
\* parseConfig
ParseConfig ==
  /\ pc = "config"
  /\ excludedFolders' = parseExcluded(env.EXCLUDED_FOLDERS)
  /\ imagesDir' = env.BRAIN_IMAGES_PATH
  /\ pc' = "discover"
  /\ UNCHANGED <<inputs, world, i, allFiles, maps, included, notes, hasImageMap,
                 imageMap, locals, backlinks>>

\* const allFiles = findMarkdownFiles(brainDir)
Discover ==
  /\ pc = "discover"
  /\ allFiles' = findMarkdownFiles(listing)
  /\ i' = 1
  /\ pc' = "ids"
  /\ UNCHANGED <<inputs, world, config, maps, included, notes, hasImageMap,
                 imageMap, locals, backlinks>>

\* one iteration of the id loop: for (const fp of allFiles) { ... }
AssignId ==
  /\ pc = "ids"
  /\ i <= Len(allFiles)
  /\ LET fp == allFiles[i]
         id == assignedId(fp, idToPath)
     IN /\ idToPath' = mapSet(idToPath, id, fp)
        /\ pathToId' = mapSet(pathToId, fp, id)
  /\ i' = i + 1
  /\ UNCHANGED <<inputs, world, config, pc, allFiles, titleToId, idToTitle,
                 titleToIdCi, included, notes, hasImageMap, imageMap, locals,
                 backlinks>>

IdsDone ==
  /\ pc = "ids"
  /\ i > Len(allFiles)
  /\ i' = 1
  /\ pc' = "titles"
  /\ UNCHANGED <<inputs, world, config, allFiles, maps, included, notes,
                 hasImageMap, imageMap, locals, backlinks>>

\* a title loop that enters the documents outside the excluded folders only
BuildTitleMapsOfIncluded ==
  /\ pc = "titles"
  /\ i <= Len(allFiles)
  /\ LET fp == allFiles[i]
         id == pathToId[fp]
         title == parseName(fp)
     IN IF isExcluded(fp, BrainDir, excludedFolders)
        THEN UNCHANGED <<titleToId, idToTitle, titleToIdCi>>
        ELSE /\ titleToId' = mapSet(titleToId, title, id)
             /\ idToTitle' = mapSet(idToTitle, id, title)
             /\ titleToIdCi' = mapSet(titleToIdCi, toLowerCase(title), id)
  /\ i' = i + 1
  /\ UNCHANGED <<inputs, world, config, pc, allFiles, pathToId, idToPath,
                 included, notes, hasImageMap, imageMap, locals, backlinks>>

\* one iteration of the title loop: for (const [fp, id] of pathToId) { ... }
\* (pathToId iterates in insertion order, the order of allFiles)
BuildTitleMaps ==
  /\ pc = "titles"
  /\ i <= Len(allFiles)
  /\ LET fp == allFiles[i]
         id == pathToId[fp]
         title == parseName(fp)
     IN /\ titleToId' = mapSet(titleToId, title, id)
        /\ idToTitle' = mapSet(idToTitle, id, title)
        /\ titleToIdCi' = mapSet(titleToIdCi, toLowerCase(title), id)
  /\ i' = i + 1
  /\ UNCHANGED <<inputs, world, config, pc, allFiles, pathToId, idToPath,
                 included, notes, hasImageMap, imageMap, locals, backlinks>>

\* included = allFiles.filter(...); notes = []; imageMap = ...
FilterIncluded ==
  /\ pc = "titles"
  /\ i > Len(allFiles)
  /\ included' = SelectSeq(allFiles,
                   LAMBDA f : ~isExcluded(f, BrainDir, excludedFolders))
  /\ notes' = <<>>
  /\ hasImageMap' = (imagesDir # Undefined)
  /\ imageMap' = IF imagesDir # Undefined THEN buildImageMap(AssetListing)
                 ELSE EmptyMap
  /\ i' = 1
  /\ pc' = "read"
  /\ UNCHANGED <<inputs, world, config, allFiles, maps, locals, backlinks>>

\* let content = fs.readFileSync(filePath); const {tags, content: body} = extractTags(content)
ReadDocument ==
  /\ pc = "read"
  /\ i <= Len(included)
  /\ LET r == extractTags(readFileSync(included[i]))
     IN /\ tags' = r.tags
        /\ body' = r.content
        /\ content' = readFileSync(included[i])
  /\ links' = <<>>
  /\ pc' = "resolve"
  /\ UNCHANGED <<inputs, world, config, i, allFiles, maps, included, notes,
                 hasImageMap, imageMap, backlinks>>

\* fs.readFileSync throws (the file is unreadable): nothing in exportBrain
\* catches it, the process ends with the exception
ReadThrows ==
  /\ pc = "read"
  /\ i <= Len(included)
  /\ pc' = "crashed"
  /\ UNCHANGED <<inputs, world, config, i, allFiles, maps, included, notes,
                 hasImageMap, imageMap, locals, backlinks>>

\* content = resolveLinks(body, titleToId, titleToIdCi)
ResolveLinks ==
  /\ pc = "resolve"
  /\ content' = resolveLinks(body, titleToId, titleToIdCi)
  /\ pc' = "category"
  /\ UNCHANGED <<inputs, world, config, i, allFiles, maps, included, notes,
                 hasImageMap, imageMap, tags, body, links, backlinks>>

\* content = addCategoryLinks(content, tags, pathToId.get(filePath), ...)
AddCategoryLinks ==
  /\ pc = "category"
  /\ content' = addCategoryLinks(content, tags, mapGet(pathToId, included[i]),
                                 titleToId, idToTitle)
  /\ pc' = "links"
  /\ UNCHANGED <<inputs, world, config, i, allFiles, maps, included, notes,
                 hasImageMap, imageMap, tags, body, links, backlinks>>

\* a loop that takes the links from the content as the scrubber leaves it
\* (the order of scripts/obsidian-to-brain.js)
ExtractLinksAfterScrub ==
  /\ pc = "links"
  /\ links' = extractLinks(removeLeadingTagLinks(content))
  /\ pc' = "scrub"
  /\ UNCHANGED <<inputs, world, config, i, allFiles, maps, included, notes,
                 hasImageMap, imageMap, tags, body, content, backlinks>>

\* const links = extractLinks(content)
ExtractLinks ==
  /\ pc = "links"
  /\ links' = extractLinks(content)
  /\ pc' = "scrub"
  /\ UNCHANGED <<inputs, world, config, i, allFiles, maps, included, notes,
                 hasImageMap, imageMap, tags, body, content, backlinks>>

\* content = removeLeadingTagLinks(content)
RemoveLeadingTagLinks ==
  /\ pc = "scrub"
  /\ content' = removeLeadingTagLinks(content)
  /\ pc' = "images"
  /\ UNCHANGED <<inputs, world, config, i, allFiles, maps, included, notes,
                 hasImageMap, imageMap, tags, body, links, backlinks>>

\* content = resolveImagesInContent(content, imageMap, DIST_IMAGES_DIR)
ResolveImages ==
  /\ pc = "images"
  /\ content' = resolveImagesInContent(content, hasImageMap, imageMap)
  /\ distImages' = distImages \cup copiedImages(content, hasImageMap, imageMap)
  /\ pc' = "push"
  /\ UNCHANGED <<inputs, clock, run, prevOutput, output, config, i, allFiles, maps,
                 included, notes, hasImageMap, imageMap, tags, body, links,
                 backlinks>>

\* a backlink pass that lists a linking note once per target
RECURSIVE pushTitlesOnce(_, _, _, _)
pushTitlesOnce(map, noteLinks, title, k) ==
  IF k > Len(noteLinks) THEN map
  ELSE LET t == noteLinks[k].targetId
           arr == IF mapHas(map, t) THEN map[t] ELSE <<>>
           seen == \E j \in 1..(k - 1) : noteLinks[j].targetId = t
       IN pushTitlesOnce(IF seen THEN map ELSE mapSet(map, t, Append(arr, title)),
                         noteLinks, title, k + 1)

\* for (const link of note.links) { arr.push(note.title) ... } for one note
RECURSIVE pushTitles(_, _, _, _)
pushTitles(map, noteLinks, title, k) ==
  IF k > Len(noteLinks) THEN map
  ELSE LET t == noteLinks[k].targetId
           arr == IF mapHas(map, t) THEN map[t] ELSE <<>>
       IN pushTitles(mapSet(map, t, Append(arr, title)), noteLinks, title, k + 1)

\* a loop that gives a note its backlinks when it pushes it, from the links
\* of the notes pushed so far
PushNoteWithBacklinks ==
  /\ pc = "push"
  /\ LET id == mapGet(pathToId, included[i])
         map == pushTitles(backlinks, links, parseName(included[i]), 1)
     IN /\ backlinks' = map
        /\ notes' = Append(notes,
             [id |-> id,
              title |-> parseName(included[i]),
              type |-> recordType(tags, included[i], BrainDir),
              tags |-> tags,
              path |-> relative(BrainDir, included[i]),
              content |-> bodyToReadable(content, idToTitle),
              links |-> links,
              backlinks |-> IF mapHas(map, id) THEN map[id] ELSE <<>>])
  /\ i' = i + 1
  /\ pc' = "read"
  /\ tags' = <<>>
  /\ body' = ""
  /\ content' = ""
  /\ links' = <<>>
  /\ UNCHANGED <<inputs, world, config, allFiles, maps, included, hasImageMap,
                 imageMap>>

\* notes.push({id, title, type, tags, path, content: bodyToReadable(...), links})
PushNote ==
  /\ pc = "push"
  /\ notes' = Append(notes,
       [id |-> mapGet(pathToId, included[i]),
        title |-> parseName(included[i]),
        type |-> recordType(tags, included[i], BrainDir),
        tags |-> tags,
        path |-> relative(BrainDir, included[i]),
        content |-> bodyToReadable(content, idToTitle),
        links |-> links])
  /\ i' = i + 1
  /\ pc' = "read"
  /\ tags' = <<>>
  /\ body' = ""
  /\ content' = ""
  /\ links' = <<>>
  /\ UNCHANGED <<inputs, world, config, allFiles, maps, included, hasImageMap,
                 imageMap, backlinks>>

\* the per-document loop is over: const backlinks = new Map()
DocumentsDone ==
  /\ pc = "read"
  /\ i > Len(included)
  /\ backlinks' = EmptyMap
  /\ i' = 1
  /\ pc' = "collect"
  /\ UNCHANGED <<inputs, world, config, allFiles, maps, included, notes,
                 hasImageMap, imageMap, locals>>

CollectBacklinks ==
  /\ pc = "collect"
  /\ i <= Len(notes)
  /\ backlinks' = pushTitles(backlinks, notes[i].links, notes[i].title, 1)
  /\ i' = i + 1
  /\ UNCHANGED <<inputs, world, config, pc, allFiles, maps, included, notes,
                 hasImageMap, imageMap, locals>>

CollectDone ==
  /\ pc = "collect"
  /\ i > Len(notes)
  /\ i' = 1
  /\ pc' = "assign"
  /\ UNCHANGED <<inputs, world, config, allFiles, maps, included, notes,
                 hasImageMap, imageMap, locals, backlinks>>

\* note.backlinks = backlinks.get(note.id) || []
withBacklinks(note, map) ==
  [id |-> note.id, title |-> note.title, type |-> note.type, tags |-> note.tags,
   path |-> note.path, content |-> note.content, links |-> note.links,
   backlinks |-> IF mapHas(map, note.id) THEN map[note.id] ELSE <<>>]

AssignBacklinks ==
  /\ pc = "assign"
  /\ i <= Len(notes)
  /\ notes' = [notes EXCEPT ![i] = withBacklinks(notes[i], backlinks)]
  /\ i' = i + 1
  /\ UNCHANGED <<inputs, world, config, pc, allFiles, maps, included,
                 hasImageMap, imageMap, locals, backlinks>>

\* const output = {...}; fs.writeFileSync(OUTPUT_FILE, JSON.stringify(output))
exportOf(noteList, now, excluded) ==
  [metadata |-> [generatedAt |-> now, noteCount |-> Len(noteList),
                 excludedFolders |-> excluded],
   noteIndex |-> array([k \in DOMAIN noteList |->
                    [id |-> noteList[k].id, title |-> noteList[k].title]]),
   notes |-> noteList]

WriteOutput ==
  /\ pc = "assign"
  /\ i > Len(notes)
  /\ output' = exportOf(notes, clock, excludedFolders)
  /\ pc' = "done"
  /\ UNCHANGED <<inputs, clock, run, prevOutput, distImages, config, i, allFiles,
                 maps, included, notes, hasImageMap, imageMap, locals, backlinks>>

\* the script is run again on the unchanged vault, at a later time
Rerun ==
  /\ pc = "done"
  /\ run < MaxRuns
  /\ run' = run + 1
  /\ clock' = clock + 1
  /\ prevOutput' = output
  /\ pc' = "config"
  /\ i' = 0
  /\ excludedFolders' = <<>>
  /\ imagesDir' = Undefined
  /\ allFiles' = <<>>
  /\ pathToId' = EmptyMap
  /\ idToPath' = EmptyMap
  /\ titleToId' = EmptyMap
  /\ idToTitle' = EmptyMap
  /\ titleToIdCi' = EmptyMap
  /\ included' = <<>>
  /\ notes' = <<>>
  /\ hasImageMap' = FALSE
  /\ imageMap' = EmptyMap
  /\ tags' = <<>>
  /\ body' = ""
  /\ content' = ""
  /\ links' = <<>>
  /\ backlinks' = EmptyMap
  /\ UNCHANGED <<inputs, output, distImages>>

Next ==
  \/ ParseConfig
  \/ Discover
  \/ AssignId
  \/ IdsDone
  \/ BuildTitleMaps
  \/ FilterIncluded
  \/ ReadDocument
  \/ ReadThrows
  \/ ResolveLinks
  \/ AddCategoryLinks
  \/ ExtractLinks
  \/ RemoveLeadingTagLinks
  \/ ResolveImages
  \/ PushNote
  \/ DocumentsDone
  \/ CollectBacklinks
  \/ CollectDone
  \/ AssignBacklinks
  \/ WriteOutput

\* one invocation of the script
Spec == Init /\ [][Next]_vars

\* the script invoked again and again on the unchanged vault
NextAgain ==
  \/ Next
  \/ Rerun

SpecAgain == Init /\ [][NextAgain]_vars

(***************************************************************************)
(* The properties.                                                         *)
(***************************************************************************)
Done == pc = "done"

\* the documents the included filter dropped
excludedFiles == Range(allFiles) \ Range(included)

\* C1: after identity assignment no two discovered documents carry the same
\* id, whatever their modification times and path digests are.
UniqueIds ==
  \A a, b \in DOMAIN pathToId : a # b => pathToId[a] # pathToId[b]

\* C2: in the export, every entry of a note's backlinks is the title of
\* another note (not the note itself) that has a link to the note's id.
BacklinksFromOthers ==
  Done =>
    \A n \in DOMAIN notes : \A b \in DOMAIN notes[n].backlinks :
      \E m \in DOMAIN notes :
        /\ m # n
        /\ notes[m].title = notes[n].backlinks[b]
        /\ \E l \in DOMAIN notes[m].links : notes[m].links[l].targetId = notes[n].id

\* C3: in the export, a link whose target is an excluded document puts no
\* entry into the backlinks of an exported note: no exported note carries the
\* id such a link points to.
NoBacklinkToExcluded ==
  Done =>
    \A x \in excludedFiles : \A m \in DOMAIN notes : \A l \in DOMAIN notes[m].links :
      notes[m].links[l].targetId = pathToId[x] =>
        \A n \in DOMAIN notes : notes[n].id # pathToId[x]


\* the references of a body next to what the Link Resolver made of them: the
\* k-th reference of the body and the k-th reference of the resolved content
rewrites(before, after) ==
  LET bs == matchAll("wikilink", before)
      cs == matchAll("wikilink", after)
  IN array([k \in 1..Min(Len(bs), Len(cs)) |->
              [in |-> matchText(before, bs[k]), out |-> matchText(after, cs[k])]])

\* what a reference writes: [[raw]] or [[raw|display]], and the base name of
\* raw, which is the target the reference is matched by
isImageRef(ref) == startsWith(ref, "!")
writtenRaw(ref) == split(Sub(ref, 3, Len(ref) - 2), "|")[1]
writtenDisplay(ref) ==
  LET parts == split(Sub(ref, 3, Len(ref) - 2), "|") IN
  IF Len(parts) > 1 THEN parts[2] ELSE ""
writtenTarget(ref) == parseName(trim(writtenRaw(ref)))

\* the Link Resolver has just rewritten the body of a document
Resolved == pc = "category"

\* d is the last discovered document with its title / with its title in lower case
lastWithTitle(d) ==
  \E p \in DOMAIN allFiles :
    /\ allFiles[p] = d
    /\ \A q \in DOMAIN allFiles : q > p => parseName(allFiles[q]) # parseName(d)
lastWithTitleCi(d) ==
  \E p \in DOMAIN allFiles :
    /\ allFiles[p] = d
    /\ \A q \in DOMAIN allFiles :
         q > p => toLowerCase(parseName(allFiles[q])) # toLowerCase(parseName(d))
isTitle(t) == \E d \in Range(allFiles) : parseName(d) = t

\* C4 as stated: for every discovered document with title T and id I, a
\* non-image reference [[T]] becomes [[I|T]], [[T|Custom]] becomes
\* [[I|Custom]], and a reference differing from T only in letter case becomes
\* a reference carrying I.
ResolvesEveryTitle ==
  Resolved =>
    LET rs == rewrites(body, content) IN
    \A d \in Range(allFiles) : \A k \in DOMAIN rs :
      LET r == rs[k] IN
      (~isImageRef(r.in)
         /\ toLowerCase(writtenRaw(r.in)) = toLowerCase(parseName(d)))
      => r.out = "[[" \o pathToId[d] \o "|"
                   \o orElse(writtenDisplay(r.in), writtenRaw(r.in)) \o "]]"

\* C4 amended: the same, for a written target that is its own base name (no
\* extension to strip), when the document is the last discovered one with
\* the title T (exact reference) or the last one with T in lower case and the
\* written target is no discovered title itself (case-variant reference).
ResolvesMappedTitle ==
  Resolved =>
    LET rs == rewrites(body, content) IN
    \A d \in Range(allFiles) : \A k \in DOMAIN rs :
      LET r == rs[k]
          raw == writtenRaw(r.in)
      IN (/\ ~isImageRef(r.in)
          /\ parseName(raw) = raw
          /\ \/ raw = parseName(d) /\ lastWithTitle(d)
             \/ /\ toLowerCase(raw) = toLowerCase(parseName(d))
                /\ ~isTitle(raw)
                /\ lastWithTitleCi(d))
         => r.out = "[[" \o pathToId[d] \o "|"
                      \o orElse(writtenDisplay(r.in), raw) \o "]]"

\* C4 witness: a reference that differs from a title in letter case only has
\* been rewritten to the id of the document with that title
ResolvedCaseVariant ==
  /\ Resolved
  /\ LET rs == rewrites(body, content) IN
     \E d \in Range(allFiles) : \E k \in DOMAIN rs :
       LET r == rs[k] IN
       /\ writtenRaw(r.in) # parseName(d)
       /\ toLowerCase(writtenRaw(r.in)) = toLowerCase(parseName(d))
       /\ ~isTitle(writtenRaw(r.in))
       /\ lastWithTitleCi(d)
       /\ r.out = "[[" \o pathToId[d] \o "|" \o writtenRaw(r.in) \o "]]"

\* C5: a reference is rewritten only to the id of a discovered document whose
\* title equals the written target up to letter case; a reference whose
\* target matches no discovered title, and an image reference, stay as written.
NeverWrongId ==
  Resolved =>
    /\ Len(matchAll("wikilink", body)) = Len(matchAll("wikilink", content))
    /\ LET rs == rewrites(body, content) IN
       \A k \in DOMAIN rs :
         LET r == rs[k]
             matching == {d \in Range(allFiles) :
                            toLowerCase(parseName(d)) = toLowerCase(writtenTarget(r.in))}
         IN /\ r.out # r.in =>
                 \E d \in matching :
                   r.out = "[[" \o pathToId[d] \o "|"
                              \o orElse(writtenDisplay(r.in), writtenTarget(r.in)) \o "]]"
            /\ (matching = {} \/ isImageRef(r.in)) => r.out = r.in

\* C5 witness: one reference of the body was rewritten and another, whose
\* target no document has, was left as written
ResolvedAndUnresolved ==
  /\ Resolved
  /\ LET rs == rewrites(body, content) IN
     \E j, k \in DOMAIN rs :
       LET r == rs[j]
           u == rs[k]
       IN /\ r.out # r.in
          /\ ~isImageRef(u.in)
          /\ \A d \in Range(allFiles) :
               toLowerCase(parseName(d)) # toLowerCase(writtenTarget(u.in))
          /\ u.out = u.in

\* the first line of a document, and the tag line of C6 and C7
firstLine(fp) == split(readFileSync(fp), "\n")[1]
TagLine == "Tags: [[Second Brain]] [[DevOps]]"
sourceOf(note) == BrainDir \o "/" \o note.path

\* the type of the location tier: the parent folder, or the default at the root
folderType(relPath) ==
  LET parts == split(relPath, "/") IN
  IF Len(parts) = 1 THEN "note" ELSE hyphenate(toLowerCase(parts[Len(parts) - 1]))

\* C6 as stated: a document whose first line is the tag line gets the tags
\* Second Brain, DevOps and the type "devops", whatever folder it sits in.
TypeFromSecondTag ==
  \A k \in DOMAIN notes :
    firstLine(sourceOf(notes[k])) = TagLine =>
      /\ notes[k].tags = <<"Second Brain", "DevOps">>
      /\ notes[k].type = "devops"

\* C6 amended: such a document gets the tags Second Brain, DevOps, and, its
\* first tag being the root tag, the type of its location: the parent folder
\* in lower case, or "note" directly at the vault root.
TypeFromFolder ==
  \A k \in DOMAIN notes :
    firstLine(sourceOf(notes[k])) = TagLine =>
      /\ notes[k].tags = <<"Second Brain", "DevOps">>
      /\ notes[k].type = folderType(notes[k].path)

\* C6 witness: two notes with the tag line, one in a folder and one at the root
TaggedInFolderAndAtRoot ==
  \E j, k \in DOMAIN notes :
    /\ firstLine(sourceOf(notes[j])) = TagLine /\ notes[j].type = "ops"
    /\ firstLine(sourceOf(notes[k])) = TagLine /\ notes[k].type = "note"

\* the id the title maps hold for a title: that of the last document with it
idOfTitle(t) ==
  IF isTitle(t)
  THEN pathToId[CHOOSE d \in Range(allFiles) : parseName(d) = t /\ lastWithTitle(d)]
  ELSE Undefined

\* the Category Linker has just run on the document included[i]
Injected == pc = "links"

\* C7 as stated: a document with the tag line gets both a prepended link to
\* the Second Brain note and one to the DevOps note, when both notes exist
\* and neither is the document itself.
BothCategoryLinks ==
  (/\ Injected
   /\ firstLine(included[i]) = TagLine
   /\ isTitle("Second Brain") /\ isTitle("DevOps")
   /\ parseName(included[i]) \notin {"Second Brain", "DevOps"})
  => /\ startsWith(content, "[[" \o idOfTitle("Second Brain") \o "|Second Brain]]")
     /\ includesStr(content, "[[" \o idOfTitle("DevOps") \o "|DevOps]]")

\* C7 amended: the Category Linker gives a document with the tag line the
\* link to the Second Brain note only, followed by a blank line and the
\* trimmed body, when that note exists, its id is not the document's id and
\* the body does not hold "[[" followed by that id; otherwise the body stays
\* as it is. No link to the DevOps note is prepended.
OnlyRootCategoryLink ==
  [][(pc = "category" /\ firstLine(included[i]) = TagLine) =>
       LET sbId == idOfTitle("Second Brain") IN
       content' = IF /\ sbId # Undefined
                     /\ sbId # pathToId[included[i]]
                     /\ ~includesStr(content, "[[" \o sbId)
                  THEN "[[" \o sbId \o "|Second Brain]]\n\n" \o trim(content)
                  ELSE content]_vars

\* C7 witness: a document with the tag line, with both notes among the
\* documents, holds the link to Second Brain and none to DevOps
RootLinkWithoutCategoryLink ==
  /\ Injected
  /\ firstLine(included[i]) = TagLine
  /\ isTitle("Second Brain") /\ isTitle("DevOps")
  /\ parseName(included[i]) \notin {"Second Brain", "DevOps"}
  /\ startsWith(content, "[[" \o idOfTitle("Second Brain") \o "|Second Brain]]\n\n")
  /\ ~includesStr(content, "[[" \o idOfTitle("DevOps"))

\* the script has run again on the unchanged vault and written its export
RanAgain == Done /\ run > 1

ReadErrorSkipsDocument == pc # "crashed"

\* the name a document is excluded by: the first segment of its path below
\* the vault root; and the folder names the environment configures
firstSegment(fp) == split(Sub(fp, Len(BrainDir) + 2, Len(fp)), "/")[1]
configuredFolders ==
  {trim(x) : x \in Range(split(env.EXCLUDED_FOLDERS, ","))}
kept(fp) ==
  \A e \in configuredFolders : toLowerCase(firstSegment(fp)) # toLowerCase(e)
discovered == SelectSeq(listing, LAMBDA fp : endsWith(fp, ".md"))

\* C10: the exported notes are exactly the discovered documents whose first
\* path segment below the vault root equals no configured excluded folder
\* name in any letter case, in discovery order.
ExportsExactlyKept ==
  Done =>
    LET keptFiles == SelectSeq(discovered, kept) IN
    /\ Len(notes) = Len(keptFiles)
    /\ \A k \in DOMAIN notes : sourceOf(notes[k]) = keptFiles[k]

\* C10 witness: an export that dropped a document of a folder configured in
\* another letter case and kept two documents
ExportedSomeDroppedSome ==
  /\ Done
  /\ Len(notes) > 1
  /\ \E fp \in Range(discovered) :
       /\ ~kept(fp)
       /\ firstSegment(fp) \notin configuredFolders

\* whether an image reference ![[name]] or ![[name|size]] names an image
\* file of the asset directory: by its file name, with or without extension
resolvable(ref) ==
  LET raw == trim(split(Sub(ref, 4, Len(ref) - 2), "|")[1])
      segs == split(raw, "/")
      name == segs[Len(segs)]
      isImage(f) == \E k \in DOMAIN IMAGE_EXTENSIONS :
                      IMAGE_EXTENSIONS[k] = toLowerCase(extname(f))
      assetNames == {basename(f) : f \in {g \in Range(AssetListing) : isImage(g)}}
  IN /\ env.BRAIN_IMAGES_PATH # Undefined
     /\ \E a \in assetNames :
          \/ a = name
          \/ \E k \in DOMAIN IMAGE_EXTENSIONS : a = name \o IMAGE_EXTENSIONS[k]

\* after is before with its image references ms[k], ms[k+1], ... (before
\* read from pos on) replaced: a resolvable one by an <img ...> tag, which
\* carries a width and a height constraint when the size is WxH, any other
\* one by nothing
RECURSIVE imagesReplacedFrom(_, _, _, _, _)
imagesReplacedFrom(before, ms, k, pos, after) ==
  IF k > Len(ms) THEN after = Sub(before, pos, Len(before))
  ELSE LET gap == Sub(before, pos, ms[k].from - 1)
           ref == matchText(before, ms[k])
           rest == Sub(after, Len(gap) + 1, Len(after))
           close == indexOfFrom(rest, ">", 1)
           tag == Sub(rest, 1, close)
           parts == split(Sub(ref, 4, Len(ref) - 2), "|")
           size == IF Len(parts) < 2 THEN <<>>
                   ELSE SelectSeq(trimAll(splitX(trim(parts[2]))), LAMBDA x : x # "")
       IN /\ startsWith(after, gap)
          /\ IF ~resolvable(ref)
             THEN imagesReplacedFrom(before, ms, k + 1, ms[k].to + 1, rest)
             ELSE /\ startsWith(rest, "<img ")
                  /\ close > 0
                  /\ Len(size) = 2 =>
                       /\ includesStr(tag, "max-width: min(" \o size[1] \o "px")
                       /\ includesStr(tag, "max-height: min(" \o size[2] \o "px")
                  /\ imagesReplacedFrom(before, ms, k + 1, ms[k].to + 1,
                                        Sub(rest, close + 1, Len(rest)))

\* C11: the Image Resolver replaces every image reference of a body, a
\* resolvable one with a WxH size by markup carrying a width and a height
\* constraint, an unresolved one (or any, without asset directory) by nothing;
\* the content of the note pushed afterwards holds no image reference.
ImagesNeverRaw ==
  [][/\ pc = "images" =>
          /\ imagesReplacedFrom(content, matchAll("imageWikilink", content), 1, 1, content')
          /\ ~includesStr(content', "![[")
     /\ pc = "push" => ~includesStr(notes'[Len(notes')].content, "![[")]_vars

\* C11 witness: a body whose reference ![[diagram.png|400x200]] has become
\* markup with both constraints
ImageWithBothConstraints ==
  /\ pc = "push"
  /\ includesStr(body, "![[diagram.png|400x200]]")
  /\ includesStr(content, "<img src=\"/dist/images/diagram.png\"")
  /\ includesStr(content, "max-width: min(400px, 100%); max-height: min(200px, 100%)")
  /\ ~includesStr(content, "![[")

\* C12 as stated: after the Tag-Link Scrubber has run on a document, every
\* link the Category Linker prepended to its resolved body is still in the
\* content.
PrependedLinksSurvive ==
  pc = "images" =>
    LET add == categoryLinks(resolveLinks(body, titleToId, titleToIdCi), tags,
                             mapGet(pathToId, included[i]), titleToId, idToTitle)
    IN \A k \in DOMAIN add : includesStr(content, add[k])

\* C13: of the discovered documents with one modification time, the first in
\* discovery order has the bare 14-digit timestamp as id and every later one
\* the timestamp, "-" and the first 4 hex characters of the md5 digest of its
\* own path; a document whose modification time no earlier document has
\* carries the bare timestamp.
BareIdForFirstOnly ==
  \A k \in DOMAIN allFiles :
    LET d == allFiles[k]
        stamp == <<"20240105090059", "20231231235907">>[mtimeOf[d]]
        shared == \E j \in 1..(k - 1) : mtimeOf[allFiles[j]] = mtimeOf[d]
    IN mapHas(pathToId, d) =>
         pathToId[d] = IF shared THEN stamp \o "-" \o Sub(md5Hex(d), 1, 4) ELSE stamp

\* C13 witness: three documents with one modification time, the first with
\* the bare id and the two after it with a suffixed one
FirstBareLaterSuffixed ==
  /\ pc = "titles"
  /\ Len(allFiles) = 3
  /\ \A k \in DOMAIN allFiles : mtimeOf[allFiles[k]] = 1
  /\ Len(pathToId[allFiles[1]]) = 14
  /\ Len(pathToId[allFiles[2]]) = 19 /\ Len(pathToId[allFiles[3]]) = 19

\* C14 as stated: a reference without display text that the Link Resolver
\* rewrites gets the title of the matched document as display text, also when
\* only the case-insensitive lookup matched.
DisplayIsStoredTitle ==
  Resolved =>
    LET rs == rewrites(body, content) IN
    \A k \in DOMAIN rs :
      LET r == rs[k] IN
      (r.out # r.in /\ writtenDisplay(r.in) = "") =>
        \E d \in Range(allFiles) :
          /\ toLowerCase(parseName(d)) = toLowerCase(writtenTarget(r.in))
          /\ r.out = "[[" \o pathToId[d] \o "|" \o parseName(d) \o "]]"

\* C14 amended: a reference without display text that the Link Resolver
\* rewrites gets the target as it is written in the reference (base name,
\* extension stripped) as display text; this is the title of the matched
\* document when the case-sensitive lookup matched, and the reference's own
\* spelling when only the case-insensitive lookup matched.
DisplayIsWrittenTarget ==
  Resolved =>
    LET rs == rewrites(body, content) IN
    \A k \in DOMAIN rs :
      LET r == rs[k] IN
      (r.out # r.in /\ writtenDisplay(r.in) = "") =>
        /\ writtenDisplay(r.out) = writtenTarget(r.in)
        /\ isTitle(writtenTarget(r.in)) =>
             \E d \in Range(allFiles) :
               /\ lastWithTitle(d)
               /\ r.out = "[[" \o pathToId[d] \o "|" \o parseName(d) \o "]]"

\* C14 witness: [[second brain]], matched by the case-insensitive lookup
\* only, is rewritten with its own spelling as display text
DisplayKeepsWrittenCase ==
  /\ Resolved
  /\ parseName(included[i]) = "Second Brain"
  /\ ~isTitle("second brain")
  /\ includesStr(body, "[[second brain]]")
  /\ includesStr(content, "[[" \o pathToId[included[i]] \o "|second brain]]")

\* C15 as stated: when the Category Linker runs on a document whose tags hold
\* the root tag (or whose first tag is another tag), and the note of that tag
\* exists and has another id than the document, the link to that note is
\* prepended exactly when the resolved body holds no reference [[id]] or
\* [[id|...]] to that very id; a reference to a longer id does not count.
PrependedUnlessExactReference ==
  [][pc = "category" =>
       LET own == pathToId[included[i]]
           targets == {idOfTitle(t) :
                         t \in {u \in Range(tags) : u = SECOND_BRAIN_TAG \/ u = tags[1]}}
           prefix == Sub(content', 1, Len(content') - Len(trim(content)))
           prepended(id) == content' # content /\ includesStr(prefix, "[[" \o id \o "|")
           refersTo(id) == \/ includesStr(content, "[[" \o id \o "|")
                           \/ includesStr(content, "[[" \o id \o "]]")
       IN \A id \in targets :
            (id # Undefined /\ id # own) => (prepended(id) <=> ~refersTo(id))]_vars

\* C16: the type of a note is its first tag, lower-cased and with each run of
\* whitespace replaced by one hyphen, when it has tags and the first is not
\* the root tag; otherwise it is the name of its immediate parent folder
\* transformed the same way, or "note" when it sits directly in the vault.
TypeIsTagElseFolder ==
  \A k \in DOMAIN notes :
    LET n == notes[k] IN
    n.type = IF n.tags # <<>> /\ n.tags[1] # "Second Brain"
             THEN hyphenate(toLowerCase(n.tags[1]))
             ELSE folderType(n.path)

\* C16 witness: the untagged projects/alpha/DevOps.md has type "alpha", and
\* Node.js.md, whose first tag is Dev Ops, has type "dev-ops"
AlphaAndDevOpsTypes ==
  \E j, k \in DOMAIN notes :
    /\ notes[j].path = "projects/alpha/DevOps.md"
    /\ notes[j].tags = <<>> /\ notes[j].type = "alpha"
    /\ notes[k].path = "Node.js.md"
    /\ notes[k].tags = <<"Dev Ops">> /\ notes[k].type = "dev-ops"

\* the bracketed names of a line, in order
bracketed(line) ==
  LET ms == matchAll("tagLink", line) IN
  array([k \in DOMAIN ms |-> Sub(line, ms[k].from + 2, ms[k].to - 2)])

\* C17 as stated: when the first line of a document is the prefix Tags:
\* followed by at least one bracketed reference, the tags are the bracketed
\* names in order and the body is the text without that line and the empty
\* lines right after it; otherwise the tags are empty and the body is the
\* text unchanged.
TagLineNeedsReference ==
  pc = "resolve" =>
    LET text == readFileSync(included[i])
        line == firstLine(included[i])
        rest == Sub(text, Len(line) + 2, Len(text))
    IN IF startsWith(line, "Tags:") /\ bracketed(line) # <<>>
       THEN tags = bracketed(line) /\ body = Sub(rest, skipNewlines(rest, 1), Len(rest))
       ELSE tags = <<>> /\ body = text

\* C17 amended: when the first line of a document starts with the prefix
\* Tags:, the tags are the bracketed names of that line in order (none when
\* the line holds no bracketed reference) and the body is the text without
\* that line and the empty lines right after it; otherwise the tags are
\* empty and the body is the text unchanged.
TagLineByPrefix ==
  pc = "resolve" =>
    LET text == readFileSync(included[i])
        line == firstLine(included[i])
        rest == Sub(text, Len(line) + 2, Len(text))
    IN IF startsWith(line, "Tags:")
       THEN tags = bracketed(line) /\ body = Sub(rest, skipNewlines(rest, 1), Len(rest))
       ELSE tags = <<>> /\ body = text

\* C17 witness: the Tag Extractor has taken the line "Tags: old", which holds
\* no reference, and the empty line after it from archive/python.md, after
\* Node.js.md lost its tag line and got the tag Dev Ops
TagLineRemoved ==
  /\ pc = "resolve"
  /\ included[i] = "/vault/archive/python.md"
  /\ tags = <<>>
  /\ body = "Old [[Python]] [[PYTHON]]"
  /\ \E k \in DOMAIN notes :
       notes[k].path = "Node.js.md" /\ notes[k].tags = <<"Dev Ops">>

\* the titles of the notes k, k+1, ... of the collection, one for each entry
\* of the note's links that targets id
RECURSIVE titlesLinkingTo(_, _)
titlesLinkingTo(id, k) ==
  IF k > Len(notes) THEN <<>>
  ELSE LET hits == SelectSeq(notes[k].links, LAMBDA l : l.targetId = id)
       IN array([j \in DOMAIN hits |-> notes[k].title]) \o titlesLinkingTo(id, k + 1)

\* C18: in the export the backlinks of a note are the titles of the notes
\* linking to its id, in the order of the notes and once for every entry of
\* their links with that target; they are empty when no note links to it.
BacklinksAreLinkingTitles ==
  Done => \A n \in DOMAIN notes : notes[n].backlinks = titlesLinkingTo(notes[n].id, 1)

\* C18 witness: an export where one note is linked twice by the same note and
\* so lists its title twice, and another note has no backlinks
BacklinkListedTwice ==
  /\ Done
  /\ \E n, m \in DOMAIN notes :
       /\ Len(notes[n].backlinks) >= 2
       /\ notes[n].backlinks[1] = notes[n].backlinks[2]
       /\ notes[m].backlinks = <<>>

\* C19: when the Link Resolver is about to run on a document, every
\* discovered document, excluded or not, has its id, and its title is in the
\* title maps (as written and in lower case); and from the first read of a
\* document on no step changes the id and title maps.
MapsCompleteBeforeResolving ==
  [][/\ pc = "resolve" =>
          /\ allFiles = discovered
          /\ \A d \in Range(allFiles) :
               /\ mapHas(pathToId, d)
               /\ mapHas(idToPath, pathToId[d])
               /\ mapHas(titleToId, parseName(d))
               /\ mapHas(titleToIdCi, toLowerCase(parseName(d)))
               /\ mapHas(idToTitle, pathToId[d])
     /\ pc \notin {"config", "discover", "ids", "titles"} =>
          /\ UNCHANGED <<pathToId, idToPath, titleToId, idToTitle, titleToIdCi>>
          /\ pc' \notin {"config", "discover", "ids", "titles"}]_vars

\* C19 witness: the Link Resolver is about to run on the first document, with
\* the title of an excluded document in the title maps
ResolvingWithExcludedTitle ==
  /\ pc = "resolve"
  /\ i = 1
  /\ notes = <<>>
  /\ \E d \in Range(allFiles) :
       /\ d \notin Range(included)
       /\ mapHas(titleToId, parseName(d))
       /\ mapHas(titleToIdCi, toLowerCase(parseName(d)))

\* C20: the backlink pass has started, or a note has its backlinks, only when
\* every included document has been processed into a note with its links;
\* and once the pass has started no step changes the links of a note.
BacklinksAfterAllLinks ==
  [][/\ (\/ pc' \in {"collect", "assign", "done"}
         \/ backlinks' # EmptyMap
         \/ \E k \in DOMAIN notes' : "backlinks" \in DOMAIN notes'[k])
        => /\ pc' \in {"collect", "assign", "done"}
           /\ Len(notes') = Len(included')
           /\ \A k \in DOMAIN notes' :
                sourceOf(notes'[k]) = included'[k] /\ "links" \in DOMAIN notes'[k]
     /\ pc \in {"collect", "assign", "done"}
        => /\ Len(notes') = Len(notes)
           /\ \A k \in DOMAIN notes : notes'[k].links = notes[k].links
     /\ (\E k \in DOMAIN notes' : "backlinks" \in DOMAIN notes'[k]) => pc' \in {"assign", "done"}]_vars

\* C20 witness: the first of three notes has just been given its backlinks,
\* collected from the links of all three
FirstBacklinksAssigned ==
  /\ pc = "assign"
  /\ i = 2
  /\ Len(notes) = 3 /\ Len(included) = 3
  /\ "backlinks" \in DOMAIN notes[1] /\ notes[1].backlinks # <<>>
  /\ "backlinks" \notin DOMAIN notes[3]
  /\ notes[3].links # <<>>

\* C21: once the Tag-Link Scrubber has run on a document, the links taken
\* from it hold the id of every link the Category Linker prepended and of
\* every reference the Link Resolver rewrote, whether or not the scrubber
\* left them in the content; and in the export every note with the target id
\* of a link lists the title of the linking note among its backlinks.
ScrubbedLinksStillCount ==
  /\ pc \in {"images", "push"} =>
       LET resolved == resolveLinks(body, titleToId, titleToIdCi)
           rs == rewrites(body, resolved)
           add == categoryLinks(resolved, tags, mapGet(pathToId, included[i]),
                                titleToId, idToTitle)
           ids == {writtenRaw(add[k]) : k \in DOMAIN add}
                    \cup {writtenRaw(rs[k].out) : k \in {j \in DOMAIN rs : rs[j].out # rs[j].in}}
       IN \A id \in ids : \E k \in DOMAIN links : links[k].targetId = id
  /\ Done =>
       \A n, t \in DOMAIN notes : \A k \in DOMAIN notes[n].links :
         notes[t].id = notes[n].links[k].targetId =>
           \E b \in DOMAIN notes[t].backlinks : notes[t].backlinks[b] = notes[n].title

\* C21 witness: the export of DevOps.md and Second Brain.md, where the
\* scrubber took the prepended link to Second Brain out of the content of
\* DevOps, which still has it among its links and is a backlink of Second Brain
ScrubbedLinkGivesBacklink ==
  /\ Done
  /\ \E n, t \in DOMAIN notes :
       /\ notes[n].title = "DevOps" /\ notes[t].title = "Second Brain"
       /\ startsWith(notes[n].content, "Link: x")
       /\ ~includesStr(notes[n].content, notes[t].id)
       /\ \E k \in DOMAIN notes[n].links : notes[n].links[k].targetId = notes[t].id
       /\ \E b \in DOMAIN notes[t].backlinks : notes[t].backlinks[b] = "DevOps"
====
